---- MODULE Spec2Model ----
(***************************************************************************)
(* The FIPS service indicator of AWS-LC                                    *)
(* (crypto/fipsmodule/service_indicator/service_indicator.c): a            *)
(* thread-local record of a lock depth and an approval counter, the        *)
(* before_call/after_call snapshot protocol, the update primitive, the     *)
(* lock/unlock reentrancy guard and the per-category verify functions.     *)
(***************************************************************************)
EXTENDS Integers, Sequences, FiniteSets, TLC

VARIABLES
  fips,      \* build mode: TRUE when AWSLC_FIPS is defined (line 20)
  tls,       \* per thread: the AWSLC_THREAD_LOCAL_FIPS_SERVICE_INDICATOR_STATE slot
  errq,      \* per thread: the diagnostic error queue (ERR_put_error / ERR_clear_error)
  aborted,   \* the process has called abort()
  before,    \* per thread: what the caller's last before_call() returned
  b_in,      \* per thread: the inner before_call() snapshot of a composite operation
  a_in,      \* per thread: the inner after_call() snapshot of a composite operation
  pc,        \* per thread: the caller's position (free calls, bracket, composite)
  nest,      \* per thread: the caller's own count of lock_state() minus unlock_state()
  last,      \* the last call made: thread, function, inputs, state before, result
  params     \* the parameters of the operation whose verify function is called

vars == <<fips, tls, errq, aborted, before, b_in, a_in, pc, nest, last, params>>

----------------------------------------------------------------------------
(* Bounds of the model.                                                    *)

\* The caller nests lock_state() at most this deep.
MaxDepth == 1
\* The caller lets the counter reach at most this value above 0 by single
\* approved calls (UpdateStateUntil takes it to the top of the 64-bit range).
MaxCount == 1
\* Entries the modelled error queue keeps (the oldest is dropped when full).
MaxErr == 1

Threads == {"A", "B"}
MainThread == "A"

----------------------------------------------------------------------------
(* uint64_t: four 16-bit limbs, most significant first, so that the width  *)
(* is exactly 64 bits and ++/-- wrap as the C arithmetic does.             *)

Limb == 2^16

U64(n) == <<0, 0, n \div Limb, n % Limb>>

U64Max == <<Limb - 1, Limb - 1, Limb - 1, Limb - 1>>

\* w + 1 in uint64_t arithmetic (wraps to 0 from 2^64-1).
U64Inc(w) ==
  IF w[4] < Limb - 1 THEN <<w[1], w[2], w[3], w[4] + 1>>
  ELSE IF w[3] < Limb - 1 THEN <<w[1], w[2], w[3] + 1, 0>>
  ELSE IF w[2] < Limb - 1 THEN <<w[1], w[2] + 1, 0, 0>>
  ELSE IF w[1] < Limb - 1 THEN <<w[1] + 1, 0, 0, 0>>
  ELSE <<0, 0, 0, 0>>

\* w - 1 in uint64_t arithmetic (wraps to 2^64-1 from 0).
U64Dec(w) ==
  IF w[4] > 0 THEN <<w[1], w[2], w[3], w[4] - 1>>
  ELSE IF w[3] > 0 THEN <<w[1], w[2], w[3] - 1, Limb - 1>>
  ELSE IF w[2] > 0 THEN <<w[1], w[2] - 1, Limb - 1, Limb - 1>>
  ELSE IF w[1] > 0 THEN <<w[1] - 1, Limb - 1, Limb - 1, Limb - 1>>
  ELSE U64Max

\* a < b as unsigned 64-bit values.
U64Lt(a, b) ==
  \/ a[1] < b[1]
  \/ a[1] = b[1] /\ a[2] < b[2]
  \/ a[1] = b[1] /\ a[2] = b[2] /\ a[3] < b[3]
  \/ a[1] = b[1] /\ a[2] = b[2] /\ a[3] = b[3] /\ a[4] < b[4]

U64Le(a, b) == a = b \/ U64Lt(a, b)

\* b = a + 1 as integers: no wrap.
U64IsSucc(a, b) == a # U64Max /\ b = U64Inc(a)

----------------------------------------------------------------------------
(* The thread-local store.                                                 *)

\* A pointer to the store is the store it points to; NULL points to nothing.
\* None stands for the value of a void call, or a snapshot not taken.
NULL == [null |-> TRUE, lock_state |-> <<>>, counter |-> <<>>]
None == <<>>

STATE_UNLOCKED == 0

ERR_R_MALLOC_FAILURE == "ERR_R_MALLOC_FAILURE"
ERR_R_INTERNAL_ERROR == "ERR_R_INTERNAL_ERROR"

\* Outcomes of the lazy creation of the store, when it is needed: both calls
\* succeed, OPENSSL_malloc returns NULL, CRYPTO_set_thread_local returns 0.
AllocOutcomes == {"ok", "malloc_fail", "set_fail"}

\* The store as service_indicator_get initialises it (lines 52-53).
fips_service_indicator_state ==
  [null |-> FALSE, lock_state |-> U64(STATE_UNLOCKED), counter |-> U64(0)]

\* service_indicator_get without the return after a failed
\* CRYPTO_set_thread_local: the unregistered store is handed to the caller.
service_indicator_get_NoReturn(slot, alloc) ==
  IF slot # NULL THEN [ind |-> slot, slot |-> slot, errs |-> <<>>]
  ELSE IF alloc = "malloc_fail"
    THEN [ind |-> NULL, slot |-> NULL, errs |-> <<ERR_R_MALLOC_FAILURE>>]
  ELSE IF alloc = "set_fail"
    THEN [ind |-> fips_service_indicator_state, slot |-> NULL,
          errs |-> <<ERR_R_INTERNAL_ERROR>>]
  ELSE [ind |-> fips_service_indicator_state,
        slot |-> fips_service_indicator_state, errs |-> <<>>]

\* service_indicator_get for a thread whose slot holds `slot`:
\* ind is the pointer returned (NULL on error), slot the slot afterwards,
\* errs the errors put on the queue.
service_indicator_get(slot, alloc) ==
  IF slot # NULL THEN [ind |-> slot, slot |-> slot, errs |-> <<>>]
  ELSE IF alloc = "malloc_fail"
    THEN [ind |-> NULL, slot |-> NULL, errs |-> <<ERR_R_MALLOC_FAILURE>>]
  ELSE IF alloc = "set_fail"
    THEN [ind |-> NULL, slot |-> NULL, errs |-> <<ERR_R_INTERNAL_ERROR>>]
  ELSE [ind |-> fips_service_indicator_state,
        slot |-> fips_service_indicator_state, errs |-> <<>>]

\* The result of a call: the slot afterwards, the errors put on the queue,
\* whether the queue was cleared first, whether abort() was called, and the
\* value returned (None for the void functions).
Result(slot, errs, clear, abort, ret) ==
  [slot |-> slot, errs |-> errs, clear |-> clear, abort |-> abort, ret |-> ret]

service_indicator_get_counter(slot, alloc) ==
  LET g == service_indicator_get(slot, alloc) IN
  IF g.ind = NULL THEN Result(g.slot, g.errs, FALSE, FALSE, U64(0))
  ELSE Result(g.slot, g.errs, FALSE, FALSE, g.ind.counter)

FIPS_service_indicator_before_call(slot, alloc) ==
  service_indicator_get_counter(slot, alloc)

\* after_call that reports one more than the counter holds.
FIPS_service_indicator_after_call_PlusOne(slot, alloc) ==
  LET r == service_indicator_get_counter(slot, alloc) IN
  Result(r.slot, r.errs, FALSE, FALSE, U64Inc(r.ret))

FIPS_service_indicator_after_call(slot, alloc) ==
  service_indicator_get_counter(slot, alloc)

FIPS_service_indicator_update_state(slot, alloc) ==
  LET g == service_indicator_get(slot, alloc) IN
  IF g.ind # NULL /\ g.ind.lock_state = U64(STATE_UNLOCKED)
    THEN Result([g.ind EXCEPT !.counter = U64Inc(@)], g.errs, FALSE, FALSE, None)
    ELSE Result(g.slot, g.errs, FALSE, FALSE, None)

\* lock_state without the overflow check: the depth wraps to 0.
FIPS_service_indicator_lock_state_NoCheck(slot, alloc) ==
  LET g == service_indicator_get(slot, alloc) IN
  IF g.ind = NULL THEN Result(g.slot, g.errs, FALSE, FALSE, None)
  ELSE Result([g.ind EXCEPT !.lock_state = U64Inc(@)],
              g.errs, FALSE, FALSE, None)

\* lock_state that also sets the counter back to 0.
FIPS_service_indicator_lock_state_ResetCounter(slot, alloc) ==
  LET g == service_indicator_get(slot, alloc) IN
  IF g.ind = NULL THEN Result(g.slot, g.errs, FALSE, FALSE, None)
  ELSE LET new_state == U64Inc(g.ind.lock_state) IN
       IF U64Lt(new_state, g.ind.lock_state)
         THEN Result(g.slot, g.errs, FALSE, TRUE, None)
         ELSE Result([g.ind EXCEPT !.lock_state = new_state, !.counter = U64(0)],
                     g.errs, FALSE, FALSE, None)

FIPS_service_indicator_lock_state(slot, alloc) ==
  LET g == service_indicator_get(slot, alloc) IN
  IF g.ind = NULL THEN Result(g.slot, g.errs, FALSE, FALSE, None)
  ELSE LET new_state == U64Inc(g.ind.lock_state) IN
       IF U64Lt(new_state, g.ind.lock_state)
         THEN Result(g.slot, g.errs, FALSE, TRUE, None)
         ELSE Result([g.ind EXCEPT !.lock_state = new_state],
                     g.errs, FALSE, FALSE, None)

\* unlock_state that returns at depth 0 instead of calling abort().
FIPS_service_indicator_unlock_state_NoAbort(slot, alloc) ==
  LET g == service_indicator_get(slot, alloc) IN
  IF g.ind = NULL THEN Result(g.slot, g.errs, FALSE, FALSE, None)
  ELSE IF g.ind.lock_state = U64(0)
    THEN Result(g.slot, g.errs, FALSE, FALSE, None)
    ELSE Result([g.ind EXCEPT !.lock_state = U64Dec(@)],
                g.errs, FALSE, FALSE, None)

FIPS_service_indicator_unlock_state(slot, alloc) ==
  LET g == service_indicator_get(slot, alloc) IN
  IF g.ind = NULL THEN Result(g.slot, g.errs, FALSE, FALSE, None)
  ELSE IF g.ind.lock_state = U64(0)
    THEN Result(g.slot, g.errs, FALSE, TRUE, None)
    ELSE Result([g.ind EXCEPT !.lock_state = U64Dec(@)],
                g.errs, FALSE, FALSE, None)

\* The stubs of the build without AWSLC_FIPS (lines 369-376).
Stub_before_call == U64(0)

\* The after_call stub returning what the before_call stub returns.
Stub_after_call_Zero == U64(0)

Stub_after_call == U64(1)

----------------------------------------------------------------------------
(* The diagnostic error queue (OPENSSL_PUT_ERROR, ERR_clear_error).        *)

ERR_put_error(q, e) ==
  IF Len(q) < MaxErr THEN Append(q, e) ELSE Append(Tail(q), e)

ERR_clear_error == <<>>

\* The queue after a call with result r.
ErrQueueAfter(q, r) ==
  IF r.clear THEN ERR_clear_error
  ELSE IF r.errs = <<>> THEN q
  ELSE ERR_put_error(q, r.errs[1])

----------------------------------------------------------------------------
(* The verify functions: a predicate on the finished operation's           *)
(* parameters, then FIPS_service_indicator_update_state.                   *)

\* A function that returns without touching the indicator.
NoCall(slot) == Result(slot, <<>>, FALSE, FALSE, None)

KeyLens == {16, 24, 32}
TagLens == {4, 8}

AEAD_GCM_approved(key_len) == key_len = 16 \/ key_len = 32

AEAD_GCM_verify_service_indicator(slot, alloc, key_len) ==
  IF AEAD_GCM_approved(key_len)
    THEN FIPS_service_indicator_update_state(slot, alloc)
    ELSE NoCall(slot)

\* The CCM condition without the tag length.
AEAD_CCM_approved_AnyTag(key_len, tag_len) == key_len = 16

AEAD_CCM_approved(key_len, tag_len) == key_len = 16 /\ tag_len = 4

AEAD_CCM_verify_service_indicator(slot, alloc, key_len, tag_len) ==
  IF AEAD_CCM_approved(key_len, tag_len)
    THEN FIPS_service_indicator_update_state(slot, alloc)
    ELSE NoCall(slot)

AES_CMAC_approved(key_len) == key_len = 16 \/ key_len = 32

AES_CMAC_verify_service_indicator(slot, alloc, key_len) ==
  IF AES_CMAC_approved(key_len)
    THEN FIPS_service_indicator_update_state(slot, alloc)
    ELSE NoCall(slot)

\* The curve switch with a case for secp256k1.
is_ec_fips_approved_Secp256k1(curve_nid) ==
  curve_nid \in {"NID_secp224r1", "NID_X9_62_prime256v1",
                 "NID_secp384r1", "NID_secp521r1", "NID_secp256k1"}

is_ec_fips_approved(curve_nid) ==
  curve_nid \in {"NID_secp224r1", "NID_X9_62_prime256v1",
                 "NID_secp384r1", "NID_secp521r1"}

is_md_fips_approved_for_signing(md_type) ==
  md_type \in {"NID_sha224", "NID_sha256", "NID_sha384", "NID_sha512"}

\* The verifying switch without the case for SHA-256.
is_md_fips_approved_for_verifying_NoSha256(md_type) ==
  md_type \in {"NID_sha1", "NID_sha224", "NID_sha384", "NID_sha512"}

is_md_fips_approved_for_verifying(md_type) ==
  md_type \in {"NID_sha1", "NID_sha224", "NID_sha256", "NID_sha384",
               "NID_sha512"}

\* A call through the function pointer md_ok.
CallMdOk(md_ok, md_type) ==
  IF md_ok = "is_md_fips_approved_for_signing"
    THEN is_md_fips_approved_for_signing(md_type)
    ELSE is_md_fips_approved_for_verifying(md_type)

\* EVP_MD_size: the digest's output length in bytes.
EVP_MD_size(md) ==
  CASE md = "NID_md5" -> 16
    [] md = "NID_sha1" -> 20
    [] md = "NID_sha224" -> 28
    [] md = "NID_sha256" -> 32
    [] md = "NID_sha512_256" -> 32
    [] md = "NID_sha384" -> 48
    [] md = "NID_sha512" -> 64

\* The decision without the comparison of the PSS salt length.
evp_md_ctx_approved_AnySalt(c, rsa_1024_ok, md_ok) ==
  IF c.md = "NULL" THEN FALSE
  ELSE IF c.pkey_type \in {"EVP_PKEY_RSA", "EVP_PKEY_RSA_PSS"} THEN
    IF ~c.sig_md_ok THEN FALSE
    ELSE IF c.pctx_md # c.md THEN FALSE
    ELSE IF ~c.padding_ok THEN FALSE
    ELSE IF /\ c.padding = "RSA_PKCS1_PSS_PADDING"
            /\ \/ ~c.saltlen_ok
               \/ ~c.mgf1_ok
               \/ c.mgf1_md # c.md
      THEN FALSE
    ELSE /\ CallMdOk(md_ok, c.md)
         /\ \/ (rsa_1024_ok /\ c.pkey_size = 128)
            \/ c.pkey_size = 256
            \/ c.pkey_size = 384
            \/ c.pkey_size = 512
  ELSE IF c.pkey_type = "EVP_PKEY_EC"
    THEN CallMdOk(md_ok, c.md) /\ is_ec_fips_approved(c.curve_nid)
  ELSE FALSE

\* The decision with the EC branch looking at the digest only.
evp_md_ctx_approved_AnyCurve(c, rsa_1024_ok, md_ok) ==
  IF c.md = "NULL" THEN FALSE
  ELSE IF c.pkey_type \in {"EVP_PKEY_RSA", "EVP_PKEY_RSA_PSS"} THEN
    IF ~c.sig_md_ok THEN FALSE
    ELSE IF c.pctx_md # c.md THEN FALSE
    ELSE IF ~c.padding_ok THEN FALSE
    ELSE IF /\ c.padding = "RSA_PKCS1_PSS_PADDING"
            /\ \/ ~c.saltlen_ok
               \/ ~c.mgf1_ok
               \/ (c.salt_len # -1 /\ c.salt_len # EVP_MD_size(c.pctx_md))
               \/ c.mgf1_md # c.md
      THEN FALSE
    ELSE /\ CallMdOk(md_ok, c.md)
         /\ \/ (rsa_1024_ok /\ c.pkey_size = 128)
            \/ c.pkey_size = 256
            \/ c.pkey_size = 384
            \/ c.pkey_size = 512
  ELSE IF c.pkey_type = "EVP_PKEY_EC"
    THEN CallMdOk(md_ok, c.md)
  ELSE FALSE

\* What evp_md_ctx_verify_service_indicator decides for the context c:
\* TRUE when it reaches FIPS_service_indicator_update_state. c.md is the
\* digest bound to the EVP_MD_CTX ("NULL" when none); the *_ok fields are the
\* return values of the parameter accessors.
evp_md_ctx_approved(c, rsa_1024_ok, md_ok) ==
  IF c.md = "NULL" THEN FALSE
  ELSE IF c.pkey_type \in {"EVP_PKEY_RSA", "EVP_PKEY_RSA_PSS"} THEN
    IF ~c.sig_md_ok THEN FALSE
    ELSE IF c.pctx_md # c.md THEN FALSE
    ELSE IF ~c.padding_ok THEN FALSE
    ELSE IF /\ c.padding = "RSA_PKCS1_PSS_PADDING"
            /\ \/ ~c.saltlen_ok
               \/ ~c.mgf1_ok
               \/ (c.salt_len # -1 /\ c.salt_len # EVP_MD_size(c.pctx_md))
               \/ c.mgf1_md # c.md
      THEN FALSE
    ELSE /\ CallMdOk(md_ok, c.md)
         /\ \/ (rsa_1024_ok /\ c.pkey_size = 128)
            \/ c.pkey_size = 256
            \/ c.pkey_size = 384
            \/ c.pkey_size = 512
  ELSE IF c.pkey_type = "EVP_PKEY_EC"
    THEN CallMdOk(md_ok, c.md) /\ is_ec_fips_approved(c.curve_nid)
  ELSE FALSE

\* The error a failing parameter accessor leaves on the queue: the first
\* accessor, in the order of the calls, that is reached and returns 0.
ERR_PROBE == "ERR_PROBE"

evp_probe_errors(c) ==
  IF c.md = "NULL" THEN <<>>
  ELSE IF c.pkey_type \notin {"EVP_PKEY_RSA", "EVP_PKEY_RSA_PSS"} THEN <<>>
  ELSE IF ~c.sig_md_ok THEN <<ERR_PROBE>>
  ELSE IF c.pctx_md # c.md THEN <<>>
  ELSE IF ~c.padding_ok THEN <<ERR_PROBE>>
  ELSE IF c.padding = "RSA_PKCS1_PSS_PADDING" /\ (~c.saltlen_ok \/ ~c.mgf1_ok)
    THEN <<ERR_PROBE>>
  ELSE <<>>

\* The function without the ERR_clear_error at err:.
evp_md_ctx_verify_service_indicator_NoClear(slot, alloc, c, rsa_1024_ok, md_ok) ==
  LET r == IF evp_md_ctx_approved(c, rsa_1024_ok, md_ok)
             THEN FIPS_service_indicator_update_state(slot, alloc)
             ELSE NoCall(slot)
  IN Result(r.slot, evp_probe_errors(c) \o r.errs, FALSE, r.abort, r.ret)

\* Every path of the function ends at err:, where ERR_clear_error empties
\* the queue, after any error the probe or the update has put there.
evp_md_ctx_verify_service_indicator(slot, alloc, c, rsa_1024_ok, md_ok) ==
  LET r == IF evp_md_ctx_approved(c, rsa_1024_ok, md_ok)
             THEN FIPS_service_indicator_update_state(slot, alloc)
             ELSE NoCall(slot)
  IN Result(r.slot, evp_probe_errors(c) \o r.errs, TRUE, r.abort, r.ret)

EVP_DigestVerify_verify_service_indicator(slot, alloc, c) ==
  evp_md_ctx_verify_service_indicator(slot, alloc, c, TRUE,
                                      "is_md_fips_approved_for_verifying")

EVP_DigestSign_verify_service_indicator(slot, alloc, c) ==
  evp_md_ctx_verify_service_indicator(slot, alloc, c, FALSE,
                                      "is_md_fips_approved_for_signing")

\* A PKCS#1 v1.5 RSA-2048 / SHA-256 context, and the contexts the callers of
\* the model hand to the digest-sign and digest-verify functions.
RsaContext ==
  [md |-> "NID_sha256", pkey_type |-> "EVP_PKEY_RSA", sig_md_ok |-> TRUE,
   pctx_md |-> "NID_sha256", padding_ok |-> TRUE,
   padding |-> "RSA_PKCS1_PADDING", saltlen_ok |-> TRUE, salt_len |-> -1,
   mgf1_ok |-> TRUE, mgf1_md |-> "NID_sha256", pkey_size |-> 256,
   curve_nid |-> "NID_undef"]

EvpContexts ==
  { RsaContext,
    [RsaContext EXCEPT !.md = "NULL"],
    [RsaContext EXCEPT !.md = "NID_sha1", !.pctx_md = "NID_sha1"],
    [RsaContext EXCEPT !.pkey_size = 128],
    [RsaContext EXCEPT !.sig_md_ok = FALSE],
    [RsaContext EXCEPT !.padding = "RSA_PKCS1_PSS_PADDING", !.salt_len = 32],
    [RsaContext EXCEPT !.padding = "RSA_PKCS1_PSS_PADDING", !.salt_len = 16],
    [RsaContext EXCEPT !.pkey_type = "EVP_PKEY_EC",
                       !.curve_nid = "NID_X9_62_prime256v1"],
    [RsaContext EXCEPT !.pkey_type = "EVP_PKEY_EC",
                       !.curve_nid = "NID_secp256k1"],
    [RsaContext EXCEPT !.pkey_type = "EVP_PKEY_ED25519"] }

EC_KEY_keygen_verify_service_indicator(slot, alloc, curve_nid) ==
  IF is_ec_fips_approved(curve_nid)
    THEN FIPS_service_indicator_update_state(slot, alloc)
    ELSE NoCall(slot)

ECDH_verify_service_indicator(slot, alloc, curve_nid) ==
  IF is_ec_fips_approved(curve_nid)
    THEN FIPS_service_indicator_update_state(slot, alloc)
    ELSE NoCall(slot)

\* pkey: [type, size, curve_nid].
EVP_PKEY_keygen_approved(pkey) ==
  IF pkey.type \in {"EVP_PKEY_RSA", "EVP_PKEY_RSA_PSS"}
    THEN pkey.size \in {256, 384, 512}
  ELSE IF pkey.type = "EVP_PKEY_EC"
    THEN is_ec_fips_approved(pkey.curve_nid)
  ELSE FALSE

EVP_PKEY_keygen_verify_service_indicator(slot, alloc, pkey) ==
  IF EVP_PKEY_keygen_approved(pkey)
    THEN FIPS_service_indicator_update_state(slot, alloc)
    ELSE NoCall(slot)

EVP_Cipher_approved(nid) ==
  nid \in {"NID_aes_128_ecb", "NID_aes_192_ecb", "NID_aes_256_ecb",
           "NID_aes_128_cbc", "NID_aes_192_cbc", "NID_aes_256_cbc",
           "NID_aes_128_ctr", "NID_aes_192_ctr", "NID_aes_256_ctr"}

EVP_Cipher_verify_service_indicator(slot, alloc, nid) ==
  IF EVP_Cipher_approved(nid)
    THEN FIPS_service_indicator_update_state(slot, alloc)
    ELSE NoCall(slot)

HMAC_approved(md_type) ==
  md_type \in {"NID_sha1", "NID_sha224", "NID_sha256", "NID_sha384",
               "NID_sha512"}

HMAC_verify_service_indicator(slot, alloc, md_type) ==
  IF HMAC_approved(md_type)
    THEN FIPS_service_indicator_update_state(slot, alloc)
    ELSE NoCall(slot)

TLSKDF_approved(md_type) ==
  md_type \in {"NID_md5", "NID_sha1", "NID_md5_sha1", "NID_sha256",
               "NID_sha384", "NID_sha512"}

TLSKDF_verify_service_indicator(slot, alloc, md_type) ==
  IF TLSKDF_approved(md_type)
    THEN FIPS_service_indicator_update_state(slot, alloc)
    ELSE NoCall(slot)

\* The parameters the callers of the model hand to these functions.
Curves == {"NID_secp224r1", "NID_X9_62_prime256v1", "NID_secp384r1",
           "NID_secp521r1", "NID_secp256k1"}

Digests == {"NID_md5", "NID_sha1", "NID_sha224", "NID_sha256", "NID_sha384",
            "NID_sha512", "NID_sha512_256", "NID_md5_sha1"}

CipherNids == {"NID_aes_128_ecb", "NID_aes_256_cbc", "NID_aes_192_ctr",
               "NID_aes_128_gcm", "NID_des_ede3_cbc"}

Pkeys ==
  { [type |-> "EVP_PKEY_RSA", size |-> 128, curve_nid |-> "NID_undef"],
    [type |-> "EVP_PKEY_RSA", size |-> 256, curve_nid |-> "NID_undef"],
    [type |-> "EVP_PKEY_RSA_PSS", size |-> 384, curve_nid |-> "NID_undef"],
    [type |-> "EVP_PKEY_RSA", size |-> 512, curve_nid |-> "NID_undef"],
    [type |-> "EVP_PKEY_RSA", size |-> 1024, curve_nid |-> "NID_undef"],
    [type |-> "EVP_PKEY_EC", size |-> 64, curve_nid |-> "NID_X9_62_prime256v1"],
    [type |-> "EVP_PKEY_EC", size |-> 64, curve_nid |-> "NID_secp256k1"],
    [type |-> "EVP_PKEY_ED25519", size |-> 64, curve_nid |-> "NID_undef"] }

----------------------------------------------------------------------------
(* The callers.  Each thread calls the functions above in any order; a     *)
(* call of before_call may open a window that a later after_call closes,   *)
(* and a composite operation runs lock / inner primitive / unlock / verify *)
(* as the signature schemes of the library do.                             *)

Improper == 0 - 1

NoWindow == [ret |-> None, ind |-> NULL]

NoLast ==
  [t |-> "none", op |-> "none", approved |-> FALSE, alloc |-> "n/a",
   pre |-> [t \in Threads |-> NULL], perr |-> [t \in Threads |-> <<>>],
   ret |-> None, b |-> NoWindow, win |-> "idle"]

\* No operation's parameters are followed: each call brings its own.
NoParams == [kind |-> "none"]

Init ==
  /\ fips \in BOOLEAN
  /\ tls = [t \in Threads |-> NULL]
  /\ errq = [t \in Threads |-> <<>>]
  /\ aborted = FALSE
  /\ before = [t \in Threads |-> NoWindow]
  /\ b_in = [t \in Threads |-> None]
  /\ a_in = [t \in Threads |-> None]
  /\ pc = [t \in Threads |-> "idle"]
  /\ nest = [t \in Threads |-> 0]
  /\ last = NoLast
  /\ params = NoParams

\* The positions at which the caller is free to call any function.
FreePcs == {"idle", "br0", "br1a", "br1n", "brN"}

\* Inside an open window: br0 nothing called yet, br1a / br1n exactly one
\* verify function called (approved / not approved parameters), brN anything
\* else.
AfterVerifyPc(p, approved) ==
  IF p = "idle" THEN "idle"
  ELSE IF p = "br0" THEN (IF approved THEN "br1a" ELSE "br1n")
  ELSE "brN"

AfterOtherPc(p) == IF p = "idle" THEN "idle" ELSE "brN"

\* One slot for the whole process instead of one per thread.
ThreadLocalSlot_Shared(t) == MainThread

\* The slot of AWSLC_THREAD_LOCAL_FIPS_SERVICE_INDICATOR_STATE that thread t's
\* CRYPTO_get_thread_local and CRYPTO_set_thread_local reach: its own.
ThreadLocalSlot(t) == t

CRYPTO_get_thread_local(t) == tls[ThreadLocalSlot(t)]

\* The outcomes of store creation a call can meet: none when the store exists.
Allocs(t) == IF CRYPTO_get_thread_local(t) = NULL THEN AllocOutcomes ELSE {"n/a"}

\* The caller keeps the values of the model inside its bounds.
NearMax(w) == w = U64Max \/ w = U64Dec(U64Max)

InRange(slot) ==
  IF slot = NULL THEN TRUE
  ELSE /\ (U64Le(slot.lock_state, U64(MaxDepth)) \/ NearMax(slot.lock_state))
       /\ (U64Le(slot.counter, U64(MaxCount)) \/ NearMax(slot.counter))

NestInc(n) == IF n = Improper THEN Improper ELSE n + 1

NestDec(n) == IF n = Improper \/ n = 0 THEN Improper ELSE n - 1

\* The effect of a call with result r on the process.
Do(t, op, r, approved, alloc, win) ==
  /\ InRange(r.slot)
  /\ tls' = [tls EXCEPT ![ThreadLocalSlot(t)] = r.slot]
  /\ errq' = [errq EXCEPT ![t] = ErrQueueAfter(@, r)]
  /\ aborted' = r.abort
  /\ last' = [t |-> t, op |-> op, approved |-> approved, alloc |-> alloc,
              pre |-> tls, perr |-> errq, ret |-> r.ret, b |-> before[t],
              win |-> win]
  /\ UNCHANGED params

Running(t) == fips /\ ~aborted

BeforeCall(t) ==
  /\ ~aborted /\ pc[t] = "idle"
  /\ \E alloc \in Allocs(t) :
       LET r == IF fips THEN FIPS_service_indicator_before_call(CRYPTO_get_thread_local(t), alloc)
                ELSE Result(CRYPTO_get_thread_local(t), <<>>, FALSE, FALSE, Stub_before_call)
       IN Do(t, "before_call", r, FALSE, IF fips THEN alloc ELSE "n/a", "idle")
  /\ UNCHANGED <<fips, before, b_in, a_in, pc, nest>>

AfterCall(t) ==
  /\ ~aborted /\ pc[t] = "idle"
  /\ \E alloc \in Allocs(t) :
       LET r == IF fips THEN FIPS_service_indicator_after_call(CRYPTO_get_thread_local(t), alloc)
                ELSE Result(CRYPTO_get_thread_local(t), <<>>, FALSE, FALSE, Stub_after_call)
       IN Do(t, "after_call", r, FALSE, IF fips THEN alloc ELSE "n/a", "idle")
  /\ UNCHANGED <<fips, before, b_in, a_in, pc, nest>>

\* before_call opening a window: the caller keeps the snapshot.
BracketBefore(t) ==
  /\ ~aborted /\ pc[t] = "idle"
  /\ \E alloc \in Allocs(t) :
       LET g == service_indicator_get(CRYPTO_get_thread_local(t), alloc)
           r == IF fips THEN FIPS_service_indicator_before_call(CRYPTO_get_thread_local(t), alloc)
                ELSE Result(CRYPTO_get_thread_local(t), <<>>, FALSE, FALSE, Stub_before_call)
       IN /\ Do(t, "before_call", r, FALSE, IF fips THEN alloc ELSE "n/a", "br0")
          /\ before' = [before EXCEPT ![t] =
                          [ret |-> r.ret, ind |-> IF fips THEN g.ind ELSE NULL]]
  /\ pc' = [pc EXCEPT ![t] = "br0"]
  /\ UNCHANGED <<fips, b_in, a_in, nest>>

\* after_call closing the window: the caller compares it with the snapshot.
BracketAfter(t) ==
  /\ ~aborted /\ pc[t] \in FreePcs \ {"idle"}
  /\ \E alloc \in Allocs(t) :
       LET r == IF fips THEN FIPS_service_indicator_after_call(CRYPTO_get_thread_local(t), alloc)
                ELSE Result(CRYPTO_get_thread_local(t), <<>>, FALSE, FALSE, Stub_after_call)
       IN Do(t, "after_call", r, pc[t] = "br1a",
             IF fips THEN alloc ELSE "n/a", pc[t])
  /\ before' = [before EXCEPT ![t] = NoWindow]
  /\ pc' = [pc EXCEPT ![t] = "idle"]
  /\ UNCHANGED <<fips, b_in, a_in, nest>>

UpdateState(t) ==
  /\ Running(t) /\ pc[t] \in FreePcs
  /\ \E alloc \in Allocs(t) :
       Do(t, "update_state",
          FIPS_service_indicator_update_state(CRYPTO_get_thread_local(t), alloc), TRUE, alloc, pc[t])
  /\ pc' = [pc EXCEPT ![t] = AfterOtherPc(@)]
  /\ UNCHANGED <<fips, before, b_in, a_in, nest>>

\* The caller calls update_state in a loop until the counter reads 2^64-2:
\* each call adds one, as the store exists and is unlocked.
UpdateStateUntil(t) ==
  /\ Running(t) /\ pc[t] \in FreePcs
  /\ CRYPTO_get_thread_local(t) # NULL
  /\ CRYPTO_get_thread_local(t).lock_state = U64(STATE_UNLOCKED)
  /\ U64Le(CRYPTO_get_thread_local(t).counter, U64(MaxCount))
  /\ Do(t, "update_state_loop",
        Result([CRYPTO_get_thread_local(t) EXCEPT !.counter = U64Dec(U64Max)], <<>>, FALSE, FALSE, None),
        TRUE, "n/a", pc[t])
  /\ pc' = [pc EXCEPT ![t] = AfterOtherPc(@)]
  /\ UNCHANGED <<fips, before, b_in, a_in, nest>>

LockState(t) ==
  /\ Running(t) /\ pc[t] \in FreePcs
  /\ nest[t] = Improper \/ nest[t] < MaxDepth
  /\ \E alloc \in Allocs(t) :
       Do(t, "lock_state",
          FIPS_service_indicator_lock_state(CRYPTO_get_thread_local(t), alloc), FALSE, alloc, pc[t])
  /\ nest' = [nest EXCEPT ![t] = NestInc(@)]
  /\ pc' = [pc EXCEPT ![t] = AfterOtherPc(@)]
  /\ UNCHANGED <<fips, before, b_in, a_in>>

UnlockState(t) ==
  /\ Running(t) /\ pc[t] \in FreePcs
  /\ \E alloc \in Allocs(t) :
       Do(t, "unlock_state",
          FIPS_service_indicator_unlock_state(CRYPTO_get_thread_local(t), alloc), FALSE, alloc, pc[t])
  /\ nest' = [nest EXCEPT ![t] = NestDec(@)]
  /\ pc' = [pc EXCEPT ![t] = AfterOtherPc(@)]
  /\ UNCHANGED <<fips, before, b_in, a_in>>

\* The caller calls lock_state in a loop until lock_state reads 2^64-2: each
\* call adds one, as the store exists.  No proper nesting of calls is this
\* deep (lines 100-108), so the caller's own count is given up.
LockStateUntil(t) ==
  /\ Running(t) /\ pc[t] \in FreePcs
  /\ CRYPTO_get_thread_local(t) # NULL
  /\ U64Le(CRYPTO_get_thread_local(t).lock_state, U64(MaxDepth))
  /\ Do(t, "lock_state_loop",
        Result([CRYPTO_get_thread_local(t) EXCEPT !.lock_state = U64Dec(U64Max)], <<>>, FALSE, FALSE, None),
        FALSE, "n/a", pc[t])
  /\ nest' = [nest EXCEPT ![t] = Improper]
  /\ pc' = [pc EXCEPT ![t] = AfterOtherPc(@)]
  /\ UNCHANGED <<fips, before, b_in, a_in>>

\* A verify function called with parameters it approves or not; r is its
\* result.  A function that does not approve never asks for the store.
Verify(t, r, approved, alloc) ==
  /\ Do(t, "verify", r, approved, IF approved THEN alloc ELSE "n/a", pc[t])
  /\ pc' = [pc EXCEPT ![t] = AfterVerifyPc(@, approved)]
  /\ UNCHANGED <<fips, before, b_in, a_in, nest>>

AEAD_GCM_verify(t) ==
  /\ Running(t) /\ pc[t] \in FreePcs
  /\ \E alloc \in Allocs(t), key_len \in KeyLens :
       Verify(t, AEAD_GCM_verify_service_indicator(CRYPTO_get_thread_local(t), alloc, key_len),
              AEAD_GCM_approved(key_len), alloc)

AEAD_CCM_verify(t) ==
  /\ Running(t) /\ pc[t] \in FreePcs
  /\ \E alloc \in Allocs(t), key_len \in KeyLens, tag_len \in TagLens :
       Verify(t, AEAD_CCM_verify_service_indicator(CRYPTO_get_thread_local(t), alloc, key_len, tag_len),
              AEAD_CCM_approved(key_len, tag_len), alloc)

AES_CMAC_verify(t) ==
  /\ Running(t) /\ pc[t] \in FreePcs
  /\ \E alloc \in Allocs(t), key_len \in KeyLens :
       Verify(t, AES_CMAC_verify_service_indicator(CRYPTO_get_thread_local(t), alloc, key_len),
              AES_CMAC_approved(key_len), alloc)

EC_KEY_keygen_verify(t) ==
  /\ Running(t) /\ pc[t] \in FreePcs
  /\ \E alloc \in Allocs(t), curve \in Curves :
       Verify(t, EC_KEY_keygen_verify_service_indicator(CRYPTO_get_thread_local(t), alloc, curve),
              is_ec_fips_approved(curve), alloc)

ECDH_verify(t) ==
  /\ Running(t) /\ pc[t] \in FreePcs
  /\ \E alloc \in Allocs(t), curve \in Curves :
       Verify(t, ECDH_verify_service_indicator(CRYPTO_get_thread_local(t), alloc, curve),
              is_ec_fips_approved(curve), alloc)

EVP_PKEY_keygen_verify(t) ==
  /\ Running(t) /\ pc[t] \in FreePcs
  /\ \E alloc \in Allocs(t), pkey \in Pkeys :
       Verify(t, EVP_PKEY_keygen_verify_service_indicator(CRYPTO_get_thread_local(t), alloc, pkey),
              EVP_PKEY_keygen_approved(pkey), alloc)

EVP_Cipher_verify(t) ==
  /\ Running(t) /\ pc[t] \in FreePcs
  /\ \E alloc \in Allocs(t), nid \in CipherNids :
       Verify(t, EVP_Cipher_verify_service_indicator(CRYPTO_get_thread_local(t), alloc, nid),
              EVP_Cipher_approved(nid), alloc)

HMAC_verify(t) ==
  /\ Running(t) /\ pc[t] \in FreePcs
  /\ \E alloc \in Allocs(t), md \in Digests :
       Verify(t, HMAC_verify_service_indicator(CRYPTO_get_thread_local(t), alloc, md),
              HMAC_approved(md), alloc)

TLSKDF_verify(t) ==
  /\ Running(t) /\ pc[t] \in FreePcs
  /\ \E alloc \in Allocs(t), md \in Digests :
       Verify(t, TLSKDF_verify_service_indicator(CRYPTO_get_thread_local(t), alloc, md),
              TLSKDF_approved(md), alloc)

EVP_DigestVerify_verify(t) ==
  /\ Running(t) /\ pc[t] \in FreePcs
  /\ \E alloc \in Allocs(t), c \in EvpContexts :
       Verify(t, EVP_DigestVerify_verify_service_indicator(CRYPTO_get_thread_local(t), alloc, c),
              evp_md_ctx_approved(c, TRUE, "is_md_fips_approved_for_verifying"),
              alloc)

EVP_DigestSign_verify(t) ==
  /\ Running(t) /\ pc[t] \in FreePcs
  /\ \E alloc \in Allocs(t), c \in EvpContexts :
       Verify(t, EVP_DigestSign_verify_service_indicator(CRYPTO_get_thread_local(t), alloc, c),
              evp_md_ctx_approved(c, FALSE, "is_md_fips_approved_for_signing"),
              alloc)

\* The cryptographic caller, or a primitive that failed, leaves an error of
\* its own on the thread's queue.
ERR_CALLER == "ERR_CALLER"

CallerError(t) ==
  /\ ~aborted /\ pc[t] = "idle"
  /\ Len(errq[t]) < MaxErr
  /\ errq' = [errq EXCEPT ![t] = ERR_put_error(@, ERR_CALLER)]
  /\ last' = [NoLast EXCEPT !.t = t, !.op = "caller_error", !.pre = tls,
                            !.perr = errq]
  /\ UNCHANGED <<fips, tls, aborted, before, b_in, a_in, pc, nest, params>>

----------------------------------------------------------------------------
(* A composite operation (a signature scheme that hashes internally):      *)
(*   b = before_call(); lock_state(); b_in = before_call();                *)
(*   inner primitive, whose verify function approves; a_in = after_call(); *)
(*   unlock_state(); the operation's own verify function; after_call().    *)

CompBefore(t) ==
  /\ Running(t) /\ pc[t] = "idle" /\ nest[t] = 0
  /\ \E alloc \in Allocs(t) :
       LET g == service_indicator_get(CRYPTO_get_thread_local(t), alloc)
           r == FIPS_service_indicator_before_call(CRYPTO_get_thread_local(t), alloc)
       IN /\ Do(t, "before_call", r, FALSE, alloc, "co_lock")
          /\ before' = [before EXCEPT ![t] = [ret |-> r.ret, ind |-> g.ind]]
  /\ pc' = [pc EXCEPT ![t] = "co_lock"]
  /\ UNCHANGED <<fips, b_in, a_in, nest>>

CompLock(t) ==
  /\ Running(t) /\ pc[t] = "co_lock"
  /\ \E alloc \in Allocs(t) :
       Do(t, "lock_state",
          FIPS_service_indicator_lock_state(CRYPTO_get_thread_local(t), alloc), FALSE, alloc, pc[t])
  /\ nest' = [nest EXCEPT ![t] = NestInc(@)]
  /\ pc' = [pc EXCEPT ![t] = "co_before"]
  /\ UNCHANGED <<fips, before, b_in, a_in>>

CompInnerBefore(t) ==
  /\ Running(t) /\ pc[t] = "co_before"
  /\ \E alloc \in Allocs(t) :
       LET r == FIPS_service_indicator_before_call(CRYPTO_get_thread_local(t), alloc)
       IN /\ Do(t, "before_call", r, FALSE, alloc, pc[t])
          /\ b_in' = [b_in EXCEPT ![t] = r.ret]
  /\ pc' = [pc EXCEPT ![t] = "co_inner"]
  /\ UNCHANGED <<fips, before, a_in, nest>>

\* The inner primitive is a SHA-256 HMAC: its verify function approves.
CompInnerVerify(t) ==
  /\ Running(t) /\ pc[t] = "co_inner"
  /\ \E alloc \in Allocs(t) :
       Do(t, "verify",
          HMAC_verify_service_indicator(CRYPTO_get_thread_local(t), alloc, "NID_sha256"),
          HMAC_approved("NID_sha256"), alloc, pc[t])
  /\ pc' = [pc EXCEPT ![t] = "co_after"]
  /\ UNCHANGED <<fips, before, b_in, a_in, nest>>

CompInnerAfter(t) ==
  /\ Running(t) /\ pc[t] = "co_after"
  /\ \E alloc \in Allocs(t) :
       LET r == FIPS_service_indicator_after_call(CRYPTO_get_thread_local(t), alloc)
       IN /\ Do(t, "after_call", r, FALSE, alloc, pc[t])
          /\ a_in' = [a_in EXCEPT ![t] = r.ret]
  /\ pc' = [pc EXCEPT ![t] = "co_unlock"]
  /\ UNCHANGED <<fips, before, b_in, nest>>

CompUnlock(t) ==
  /\ Running(t) /\ pc[t] = "co_unlock"
  /\ \E alloc \in Allocs(t) :
       Do(t, "unlock_state",
          FIPS_service_indicator_unlock_state(CRYPTO_get_thread_local(t), alloc), FALSE, alloc, pc[t])
  /\ nest' = [nest EXCEPT ![t] = NestDec(@)]
  /\ pc' = [pc EXCEPT ![t] = "co_verify"]
  /\ UNCHANGED <<fips, before, b_in, a_in>>

\* The operation's own verify function, with parameters it approves or not.
CompVerify(t) ==
  /\ Running(t) /\ pc[t] = "co_verify"
  /\ \E alloc \in Allocs(t), c \in EvpContexts :
       LET approved ==
             evp_md_ctx_approved(c, FALSE, "is_md_fips_approved_for_signing")
       IN /\ Do(t, "verify",
                EVP_DigestSign_verify_service_indicator(CRYPTO_get_thread_local(t), alloc, c),
                approved, IF approved THEN alloc ELSE "n/a", pc[t])
          /\ pc' = [pc EXCEPT ![t] = IF approved THEN "co_end_a" ELSE "co_end_n"]
  /\ UNCHANGED <<fips, before, b_in, a_in, nest>>

CompAfter(t) ==
  /\ Running(t) /\ pc[t] \in {"co_end_a", "co_end_n"}
  /\ \E alloc \in Allocs(t) :
       Do(t, "after_call", FIPS_service_indicator_after_call(CRYPTO_get_thread_local(t), alloc),
          pc[t] = "co_end_a", alloc, pc[t])
  /\ before' = [before EXCEPT ![t] = NoWindow]
  /\ b_in' = [b_in EXCEPT ![t] = None]
  /\ a_in' = [a_in EXCEPT ![t] = None]
  /\ pc' = [pc EXCEPT ![t] = "idle"]
  /\ UNCHANGED <<fips, nest>>

----------------------------------------------------------------------------
(* Spec: one thread, every function and caller.  SpecThreads: every thread *)
(* calling the counter protocol, the update primitive and the guard.       *)

Next ==
  \E t \in {MainThread} :
    \/ BeforeCall(t)
    \/ AfterCall(t)
    \/ BracketBefore(t)
    \/ BracketAfter(t)
    \/ UpdateState(t)
    \/ UpdateStateUntil(t)
    \/ LockState(t)
    \/ UnlockState(t)
    \/ AEAD_GCM_verify(t)
    \/ AEAD_CCM_verify(t)
    \/ AES_CMAC_verify(t)
    \/ EC_KEY_keygen_verify(t)
    \/ ECDH_verify(t)
    \/ EVP_PKEY_keygen_verify(t)
    \/ EVP_Cipher_verify(t)
    \/ HMAC_verify(t)
    \/ TLSKDF_verify(t)
    \/ EVP_DigestVerify_verify(t)
    \/ EVP_DigestSign_verify(t)
    \/ CallerError(t)
    \/ CompBefore(t)
    \/ CompLock(t)
    \/ CompInnerBefore(t)
    \/ CompInnerVerify(t)
    \/ CompInnerAfter(t)
    \/ CompUnlock(t)
    \/ CompVerify(t)
    \/ CompAfter(t)

Spec == Init /\ [][Next]_vars

NextThreads ==
  \E t \in Threads :
    \/ BeforeCall(t)
    \/ AfterCall(t)
    \/ UpdateState(t)
    \/ LockState(t)
    \/ UnlockState(t)
    \/ AEAD_GCM_verify(t)

SpecThreads == Init /\ [][NextThreads]_vars

\* SpecDepth: one thread calling the counter protocol, the update primitive
\* and the guard, the guard up to the top of the 64-bit range.
NextDepth ==
  \E t \in {MainThread} :
    \/ BeforeCall(t)
    \/ AfterCall(t)
    \/ UpdateState(t)
    \/ LockState(t)
    \/ LockStateUntil(t)
    \/ UnlockState(t)

SpecDepth == Init /\ [][NextDepth]_vars

----------------------------------------------------------------------------
(* SpecGlue: one operation's parameters, fixed at the start, handed to the *)
(* verify functions of its category at any lock depth.                     *)

SigDigests == {"NID_sha1", "NID_sha256", "NID_md5"}
SaltLens == {0 - 1, 16, 32}
PkeySizes == {128, 256, 384, 512, 1024}
Accessors == {"none", "signature_md", "rsa_padding", "rsa_pss_saltlen",
              "rsa_mgf1_md"}

\* The EVP_MD_CTX values with an RSA or RSA-PSS key: at most one of the
\* parameter accessors fails; the key context's digest and the MGF1 digest
\* are the digest in use or another one.
RsaSigContexts ==
  { [md |-> md, pkey_type |-> ty, sig_md_ok |-> fail # "signature_md",
     pctx_md |-> IF same THEN md ELSE "NID_sha384",
     padding_ok |-> fail # "rsa_padding", padding |-> pad,
     saltlen_ok |-> fail # "rsa_pss_saltlen", salt_len |-> sl,
     mgf1_ok |-> fail # "rsa_mgf1_md",
     mgf1_md |-> IF mgf THEN md ELSE "NID_sha384",
     pkey_size |-> sz, curve_nid |-> "NID_undef"] :
    md \in SigDigests, ty \in {"EVP_PKEY_RSA", "EVP_PKEY_RSA_PSS"},
    fail \in Accessors, same \in BOOLEAN,
    pad \in {"RSA_PKCS1_PADDING", "RSA_PKCS1_PSS_PADDING"},
    sl \in SaltLens, mgf \in BOOLEAN, sz \in PkeySizes }

\* The EVP_MD_CTX values with an EC key or a key of another type.
OtherSigContexts ==
  { [RsaContext EXCEPT !.md = md, !.pctx_md = md, !.mgf1_md = md,
                       !.pkey_type = ty, !.curve_nid = cv] :
    md \in SigDigests, ty \in {"EVP_PKEY_EC", "EVP_PKEY_ED25519"},
    cv \in Curves }

\* The EVP_MD_CTX values with no digest bound.
NoDigestSigContexts ==
  { [RsaContext EXCEPT !.md = "NULL", !.pkey_type = ty, !.curve_nid = cv] :
    ty \in {"EVP_PKEY_RSA", "EVP_PKEY_EC", "EVP_PKEY_ED25519"},
    cv \in {"NID_X9_62_prime256v1"} }

SigContexts == RsaSigContexts \cup OtherSigContexts \cup NoDigestSigContexts

InitGlue ==
  /\ fips = TRUE
  /\ tls = [t \in Threads |-> NULL]
  /\ errq = [t \in Threads |-> <<>>]
  /\ aborted = FALSE
  /\ before = [t \in Threads |-> NoWindow]
  /\ b_in = [t \in Threads |-> None]
  /\ a_in = [t \in Threads |-> None]
  /\ pc = [t \in Threads |-> "idle"]
  /\ nest = [t \in Threads |-> 0]
  /\ last = NoLast
  /\ \/ params \in {[kind |-> "EVP_MD_CTX", ctx |-> c] : c \in SigContexts}
     \/ params \in {[kind |-> "EVP_PKEY", pkey |-> k] : k \in Pkeys}
     \/ params \in {[kind |-> "EC_KEY", curve_nid |-> cv] : cv \in Curves}
     \/ params \in {[kind |-> "EVP_AEAD_CTX", key_len |-> k, tag_len |-> g] :
                      k \in KeyLens, g \in TagLens}

\* The verify function fn called on params; r is its result.
VerifyParams(t, fn, r, approved, alloc) ==
  /\ Do(t, fn, r, approved, IF approved THEN alloc ELSE "n/a", pc[t])
  /\ UNCHANGED <<fips, before, b_in, a_in, pc, nest>>

EVP_DigestSign_params(t) ==
  /\ Running(t) /\ pc[t] = "idle" /\ params.kind = "EVP_MD_CTX"
  /\ \E alloc \in Allocs(t) :
       VerifyParams(t, "EVP_DigestSign_verify_service_indicator",
         EVP_DigestSign_verify_service_indicator(CRYPTO_get_thread_local(t), alloc, params.ctx),
         evp_md_ctx_approved(params.ctx, FALSE, "is_md_fips_approved_for_signing"),
         alloc)

EVP_DigestVerify_params(t) ==
  /\ Running(t) /\ pc[t] = "idle" /\ params.kind = "EVP_MD_CTX"
  /\ \E alloc \in Allocs(t) :
       VerifyParams(t, "EVP_DigestVerify_verify_service_indicator",
         EVP_DigestVerify_verify_service_indicator(CRYPTO_get_thread_local(t), alloc, params.ctx),
         evp_md_ctx_approved(params.ctx, TRUE, "is_md_fips_approved_for_verifying"),
         alloc)

EVP_PKEY_keygen_params(t) ==
  /\ Running(t) /\ pc[t] = "idle" /\ params.kind = "EVP_PKEY"
  /\ \E alloc \in Allocs(t) :
       VerifyParams(t, "EVP_PKEY_keygen_verify_service_indicator",
         EVP_PKEY_keygen_verify_service_indicator(CRYPTO_get_thread_local(t), alloc, params.pkey),
         EVP_PKEY_keygen_approved(params.pkey), alloc)

EC_KEY_keygen_params(t) ==
  /\ Running(t) /\ pc[t] = "idle" /\ params.kind = "EC_KEY"
  /\ \E alloc \in Allocs(t) :
       VerifyParams(t, "EC_KEY_keygen_verify_service_indicator",
         EC_KEY_keygen_verify_service_indicator(CRYPTO_get_thread_local(t), alloc, params.curve_nid),
         is_ec_fips_approved(params.curve_nid), alloc)

ECDH_params(t) ==
  /\ Running(t) /\ pc[t] = "idle" /\ params.kind = "EC_KEY"
  /\ \E alloc \in Allocs(t) :
       VerifyParams(t, "ECDH_verify_service_indicator",
         ECDH_verify_service_indicator(CRYPTO_get_thread_local(t), alloc, params.curve_nid),
         is_ec_fips_approved(params.curve_nid), alloc)

AEAD_GCM_params(t) ==
  /\ Running(t) /\ pc[t] = "idle" /\ params.kind = "EVP_AEAD_CTX"
  /\ \E alloc \in Allocs(t) :
       VerifyParams(t, "AEAD_GCM_verify_service_indicator",
         AEAD_GCM_verify_service_indicator(CRYPTO_get_thread_local(t), alloc, params.key_len),
         AEAD_GCM_approved(params.key_len), alloc)

AEAD_CCM_params(t) ==
  /\ Running(t) /\ pc[t] = "idle" /\ params.kind = "EVP_AEAD_CTX"
  /\ \E alloc \in Allocs(t) :
       VerifyParams(t, "AEAD_CCM_verify_service_indicator",
         AEAD_CCM_verify_service_indicator(CRYPTO_get_thread_local(t), alloc, params.key_len, params.tag_len),
         AEAD_CCM_approved(params.key_len, params.tag_len), alloc)

NextGlue ==
  \E t \in {MainThread} :
    \/ LockState(t)
    \/ UnlockState(t)
    \/ EVP_DigestSign_params(t)
    \/ EVP_DigestVerify_params(t)
    \/ EVP_PKEY_keygen_params(t)
    \/ EC_KEY_keygen_params(t)
    \/ ECDH_params(t)
    \/ AEAD_GCM_params(t)
    \/ AEAD_CCM_params(t)

SpecGlue == InitGlue /\ [][NextGlue]_vars

----------------------------------------------------------------------------
(* The properties.  They speak of the last call made (last) and of the     *)
(* state it left.                                                          *)

\* The store as the code creates it: lock depth 0, counter 0.
FreshStore == [null |-> FALSE, lock_state |-> <<0, 0, 0, 0>>,
               counter |-> <<0, 0, 0, 0>>]

Zero == <<0, 0, 0, 0>>
One == <<0, 0, 0, 1>>

\* The store the last call worked on: the thread's own, one it created, or
\* NULL when there was none and none could be created.
StoreAtCall ==
  IF last.t = "none" THEN NULL
  ELSE IF last.pre[last.t] # NULL THEN last.pre[last.t]
  ELSE IF last.alloc = "ok" THEN FreshStore
  ELSE NULL

StoreNow == IF last.t = "none" THEN NULL ELSE tls[last.t]

\* C1: a call of a verify function or of FIPS_service_indicator_update_state,
\* with a store at hand, adds exactly 1 to approval_counter when the
\* parameters are approved and lock_depth is 0, and leaves it as it was when
\* they are not approved or lock_depth > 0.
C1_VerifyAddsOne ==
  (last.op \in {"verify", "update_state"} /\ StoreAtCall # NULL) =>
     IF last.approved /\ StoreAtCall.lock_state = Zero
       THEN U64IsSucc(StoreAtCall.counter, StoreNow.counter)
       ELSE StoreNow.counter = StoreAtCall.counter

\* C2: in a composite operation (lock_state, an inner primitive whose verify
\* function approves, unlock_state, the operation's own verify function) the
\* inner before_call / after_call window reads the same counter twice, and
\* the counter across the whole operation rises by at most 1, by exactly 1
\* when the operation's own verify function approves; whatever the outcome
\* of store creation at each call.
C2_Reentrancy ==
  /\ \A t \in Threads : pc[t] = "co_unlock" => a_in[t] = b_in[t]
  /\ (last.op = "after_call" /\ last.win \in {"co_end_a", "co_end_n"}) =>
       /\ last.ret = last.b.ret \/ U64IsSucc(last.b.ret, last.ret)
       /\ last.win = "co_end_a" => U64IsSucc(last.b.ret, last.ret)

\* C3: while the caller's lock_state / unlock_state calls are properly
\* nested, whatever else it calls in between and whatever the outcome of
\* store creation at each call, the process does not abort, and after the
\* unlock_state that closes the outermost lock_state lock_depth is 0.
C3_ProperNesting ==
  \A t \in Threads :
    nest[t] # Improper =>
      /\ ~(aborted /\ last.t = t)
      /\ (last.t = t /\ last.op = "unlock_state" /\ nest[t] = 0
            /\ tls[t] # NULL) => tls[t].lock_state = Zero

\* C4: a window b = before_call() ... a = after_call() at lock_depth 0, with
\* exactly one verify function called in between, has a > b if and only if
\* the parameters were approved, for every value of the counter at b.
C4_EdgeTriggered ==
  (/\ fips
   /\ last.op = "after_call"
   /\ last.win \in {"br1a", "br1n"}
   /\ last.b.ind # NULL
   /\ last.b.ind.lock_state = Zero) =>
     (U64Lt(last.b.ret, last.ret) <=> last.win = "br1a")

\* C5: after_call() >= before_call() for whatever is called between the two,
\* and no call makes approval_counter smaller.
C5_Monotonic ==
  /\ (last.op = "after_call" /\ last.win # "idle") =>
       U64Le(last.b.ret, last.ret)
  /\ (last.t # "none" /\ last.pre[last.t] # NULL) =>
       U64Le(last.pre[last.t].counter, tls[last.t].counter)

\* C6, unconditional form: unlock_state called when the thread's lock_depth is 0, the
\* very first indicator call on a thread included, aborts the process.
C6_UnlockAtZeroAlwaysAborts ==
  (/\ last.op = "unlock_state"
   /\ \/ last.pre[last.t] = NULL
      \/ last.pre[last.t].lock_state = Zero) => aborted

\* C6, by the store the call works on: unlock_state aborts the process when the store it works on,
\* the thread's own or one the call has just created, has lock_depth 0; with
\* lock_depth > 0 it takes exactly 1 from it, never going below 0 or round
\* to 2^64-1; when there is no store and none can be created it returns.
C6_UnlockAtZeroAborts ==
  last.op = "unlock_state" =>
    IF StoreAtCall = NULL THEN ~aborted /\ StoreNow = NULL
    ELSE IF StoreAtCall.lock_state = Zero
      THEN aborted /\ StoreNow = StoreAtCall
    ELSE /\ ~aborted
         /\ U64IsSucc(StoreNow.lock_state, StoreAtCall.lock_state)
         /\ StoreNow.counter = StoreAtCall.counter

\* unlock_state as the first indicator call of a thread: the store is
\* created with lock_depth 0 and the process aborts.
C6_Witness ==
  /\ aborted
  /\ last.op = "unlock_state"
  /\ last.pre[last.t] = NULL
  /\ last.alloc = "ok"

\* C7: when the store cannot be created, before_call and after_call return
\* 0, update_state, the verify functions, lock_state and unlock_state change
\* nothing and do not abort, and no store is left behind; a store created by
\* a later call starts from lock_depth 0 and counter 0, to which that call's
\* own effect is applied.
C7_AllocFailureSilent ==
  /\ (last.t # "none" /\ last.pre[last.t] = NULL
        /\ last.alloc \in {"malloc_fail", "set_fail"}) =>
       /\ tls[last.t] = NULL
       /\ ~aborted
       /\ last.op \in {"before_call", "after_call"} => last.ret = Zero
  /\ (last.t # "none" /\ last.pre[last.t] = NULL /\ tls[last.t] # NULL) =>
       /\ last.alloc = "ok"
       /\ tls[last.t] =
            IF last.op = "lock_state"
              THEN [FreshStore EXCEPT !.lock_state = One]
            ELSE IF last.op \in {"update_state", "verify"}
              THEN [FreshStore EXCEPT !.counter = One]
            ELSE FreshStore
       /\ last.op \in {"before_call", "after_call"} => last.ret = Zero

\* A call that creates the store after an earlier call failed to (the failed
\* OPENSSL_malloc left its error on the queue), and reads counter 0.
C7_Witness ==
  /\ last.op = "before_call"
  /\ last.pre[last.t] = NULL
  /\ last.alloc = "ok"
  /\ last.perr[last.t] = <<ERR_R_MALLOC_FAILURE>>
  /\ last.ret = Zero
  /\ tls[last.t] = FreshStore

\* C8: no function of the indicator changes the diagnostic error queue: it
\* holds after the call the entries it held before.
C8_ErrorQueueUntouched ==
  last.op \notin {"none", "caller_error"} => errq = last.perr

\* C9: in the build without AWSLC_FIPS before_call returns 0 and after_call
\* returns 1, whatever was called before, so every window has after > before.
C9_StubMode ==
  ~fips =>
    /\ last.op = "before_call" => last.ret = Zero
    /\ last.op = "after_call" => last.ret = One
    /\ (last.op = "after_call" /\ last.win # "idle") =>
         /\ last.b.ret = Zero
         /\ U64Lt(last.b.ret, last.ret)

\* A window closed in the stub build: 0 before, 1 after.
C9_Witness ==
  /\ ~fips
  /\ last.op = "after_call"
  /\ last.win = "br0"
  /\ last.b.ret = Zero
  /\ last.ret = One

\* C10: a call made by one thread leaves the store of every other thread as
\* it was; before_call and after_call read the calling thread's own counter;
\* and an approved update with the thread's own lock_depth 0 counts, whatever
\* the other threads' lock depths.
C10_ThreadIsolation ==
  /\ \A t \in Threads : t # last.t => tls[t] = last.pre[t]
  /\ (fips /\ last.op \in {"before_call", "after_call"}) =>
       last.ret = IF StoreNow = NULL THEN Zero ELSE StoreNow.counter
  /\ (/\ last.op \in {"update_state", "verify"}
      /\ last.approved
      /\ StoreAtCall # NULL
      /\ StoreAtCall.lock_state = Zero) =>
       StoreNow.counter = U64Inc(StoreAtCall.counter)

\* Thread B's approved update counts while thread A holds its lock.
C10_Witness ==
  /\ last.t = "B"
  /\ last.op = "update_state"
  /\ tls["A"].lock_state = One
  /\ tls["A"].counter = Zero
  /\ tls["B"].counter = One

\* What before_call / after_call read from a slot: 0 without a store.
Reading(slot) == IF slot = NULL THEN Zero ELSE slot.counter

\* The last call was an update or a verify call that took effect: approved
\* parameters, a store at hand, lock_depth 0.
TookEffect ==
  /\ last.op \in {"verify", "update_state", "update_state_loop"}
  /\ last.approved
  /\ StoreAtCall # NULL
  /\ StoreAtCall.lock_state = Zero

\* before_call and after_call return the counter and change nothing that is
\* read; lock_state, unlock_state and the update and verify calls that did
\* not take effect leave what they read as it was.
ReadsAreStable ==
  /\ last.op \in {"before_call", "after_call"} =>
       /\ last.ret = Reading(StoreNow)
       /\ Reading(StoreNow) = Reading(last.pre[last.t])
  /\ (\/ last.op \in {"lock_state", "unlock_state"}
      \/ last.op \in {"verify", "update_state"} /\ ~TookEffect) =>
       Reading(StoreNow) = Reading(last.pre[last.t])

\* A window closed with nothing, or one verify call with parameters that are
\* not approved, called inside it: after_call returns what before_call did.
QuietWindowReadsEqual ==
  (last.op = "after_call" /\ last.win \in {"br0", "br1n"}) =>
    last.ret = last.b.ret

\* C11, in every build: before_call and after_call are read-only, and two
\* reads (before_call / before_call or before_call / after_call) with no
\* update that took effect in between return equal values.
C11_ReadsEqualAnyBuild ==
  /\ fips => ReadsAreStable
  /\ QuietWindowReadsEqual

\* C11, in the build with AWSLC_FIPS: before_call and after_call return the
\* thread's counter (0 without a store) and leave it as it was, and so do
\* lock_state, unlock_state and every update or verify call that is
\* suppressed by the lock, by its parameters or by a missing store; a window
\* with no effective update inside reads the same value at both ends.
C11_ReadsEqual ==
  fips => (ReadsAreStable /\ QuietWindowReadsEqual)

\* A window at counter 1 in which a verify function was called with
\* parameters it does not approve: both ends read 1.
C11_Witness ==
  /\ fips
  /\ last.op = "after_call"
  /\ last.win = "br1n"
  /\ last.b.ret = One
  /\ last.ret = One

----------------------------------------------------------------------------
(* The glue: what each verify function counts, under SpecGlue.             *)

PreStore == IF last.t = "none" THEN NULL ELSE last.pre[last.t]

\* The call had a store to work on: the thread's own, or one it could create
\* (a call that does not approve asks for none).
StoreAvailable == PreStore # NULL \/ last.alloc \in {"ok", "n/a"}

\* ... and that store had lock_depth 0.
AtDepthZero ==
  IF PreStore = NULL THEN last.alloc \in {"ok", "n/a"}
  ELSE PreStore.lock_state = Zero

\* The call added one to the counter and changed nothing else.
Counted ==
  /\ StoreAtCall # NULL
  /\ StoreNow = [StoreAtCall EXCEPT !.counter = U64Inc(@)]

\* The call left the thread's slot as it was.
Untouched == StoreNow = PreStore

SigFns == {"EVP_DigestSign_verify_service_indicator",
           "EVP_DigestVerify_verify_service_indicator"}

Verifying == last.op = "EVP_DigestVerify_verify_service_indicator"

\* The digest rule of the path.
DigestRule(md) ==
  IF Verifying
    THEN md \in {"NID_sha1", "NID_sha224", "NID_sha256", "NID_sha384", "NID_sha512"}
    ELSE md \in {"NID_sha224", "NID_sha256", "NID_sha384", "NID_sha512"}

DigestLength(md) ==
  CASE md = "NID_sha1" -> 20
    [] md = "NID_sha224" -> 28
    [] md = "NID_sha256" -> 32
    [] md = "NID_sha384" -> 48
    [] md = "NID_sha512" -> 64
    [] OTHER -> 0

ApprovedCurves == {"NID_secp224r1", "NID_X9_62_prime256v1", "NID_secp384r1",
                   "NID_secp521r1"}

\* The composite signature rule for an RSA or RSA-PSS key; a parameter that
\* cannot be retrieved satisfies no condition on it.
RsaSignatureRule(c) ==
  /\ c.md # "NULL"
  /\ c.sig_md_ok /\ c.pctx_md = c.md
  /\ DigestRule(c.md)
  /\ c.padding_ok
  /\ c.padding = "RSA_PKCS1_PSS_PADDING" =>
       /\ c.saltlen_ok /\ c.salt_len \in {0 - 1, DigestLength(c.md)}
       /\ c.mgf1_ok /\ c.mgf1_md = c.md
  /\ c.pkey_size \in (IF Verifying THEN {128, 256, 384, 512} ELSE {256, 384, 512})

\* C12: with an RSA or RSA-PSS key and lock_depth 0 the digest-sign and
\* digest-verify verify functions add one to the counter if and only if a
\* digest is bound, the key context's digest is the digest used, the digest
\* satisfies the path's digest rule, with PSS padding the salt length is -1
\* or the digest's output length and the MGF1 digest is the digest used, and
\* the modulus has 256, 384 or 512 bytes (or 128 when verifying); otherwise
\* they change nothing.
C12_RsaSignatureRule ==
  (/\ last.op \in SigFns
   /\ params.ctx.pkey_type \in {"EVP_PKEY_RSA", "EVP_PKEY_RSA_PSS"}
   /\ AtDepthZero) =>
     IF RsaSignatureRule(params.ctx) THEN Counted ELSE Untouched

\* PSS signing with SHA-256, a 256-byte modulus, MGF1 SHA-256 and salt
\* length 32 has been counted.
C12_Witness ==
  /\ last.op = "EVP_DigestSign_verify_service_indicator"
  /\ params.ctx = [RsaContext EXCEPT !.padding = "RSA_PKCS1_PSS_PADDING",
                                     !.salt_len = 32]
  /\ PreStore # NULL
  /\ PreStore.counter = Zero
  /\ StoreNow.counter = One

\* The counter the other path's function leaves from the state the last call
\* started in.
SignWouldCount ==
  EVP_DigestSign_verify_service_indicator(PreStore, last.alloc, params.ctx).slot
    = [PreStore EXCEPT !.counter = U64Inc(@)]

VerifyWouldCount ==
  EVP_DigestVerify_verify_service_indicator(PreStore, last.alloc, params.ctx).slot
    = [PreStore EXCEPT !.counter = U64Inc(@)]

Sha1Or1024(c) ==
  \/ c.md = "NID_sha1"
  \/ c.pkey_type \in {"EVP_PKEY_RSA", "EVP_PKEY_RSA_PSS"} /\ c.pkey_size = 128

\* C13: on one context and from one state with lock_depth 0, if the
\* digest-sign function counts then the digest-verify function counts, and
\* the contexts the digest-verify function counts and the digest-sign
\* function does not are those with digest sha1 or a 128-byte RSA modulus; a
\* 128-byte modulus is never counted for signing.
C13_SignImpliesVerify ==
  (last.op \in SigFns /\ PreStore # NULL /\ PreStore.lock_state = Zero) =>
    LET signs == IF Verifying THEN SignWouldCount ELSE Counted
        verifies == IF Verifying THEN Counted ELSE VerifyWouldCount
    IN /\ signs => verifies
       /\ (verifies /\ ~signs) <=> (verifies /\ Sha1Or1024(params.ctx))
       /\ (params.ctx.pkey_type \in {"EVP_PKEY_RSA", "EVP_PKEY_RSA_PSS"}
             /\ params.ctx.pkey_size = 128) => ~signs

\* A verification with a 128-byte RSA modulus and SHA-256 has been counted;
\* signing with the same context is not.
C13_Witness ==
  /\ Verifying
  /\ params.ctx = [RsaContext EXCEPT !.pkey_size = 128]
  /\ PreStore # NULL
  /\ PreStore.lock_state = Zero
  /\ Counted
  /\ ~SignWouldCount

\* A parameter accessor that the function calls on c returns 0.
AccessorFails(c) ==
  /\ c.md # "NULL"
  /\ c.pkey_type \in {"EVP_PKEY_RSA", "EVP_PKEY_RSA_PSS"}
  /\ \/ ~c.sig_md_ok
     \/ /\ c.pctx_md = c.md
        /\ \/ ~c.padding_ok
           \/ c.padding = "RSA_PKCS1_PSS_PADDING" /\ (~c.saltlen_ok \/ ~c.mgf1_ok)

\* C14: when a parameter accessor fails the digest-sign / digest-verify
\* verify function leaves the store as it was, and on every return path the
\* error queue is empty afterwards: nothing raised during the probe stays.
C14_ProbeFailure ==
  last.op \in SigFns =>
    /\ errq[last.t] = <<>>
    /\ AccessorFails(params.ctx) => Untouched

\* The signature-digest accessor failed on a thread with a store and an
\* error already on its queue: store unchanged, queue empty.
C14_Witness ==
  /\ last.op \in SigFns
  /\ ~params.ctx.sig_md_ok
  /\ params.ctx.md = "NID_sha256"
  /\ last.perr[last.t] # <<>>
  /\ PreStore # NULL
  /\ StoreNow = PreStore
  /\ errq[last.t] = <<>>

KeygenFns == {"EVP_PKEY_keygen_verify_service_indicator",
              "EC_KEY_keygen_verify_service_indicator",
              "ECDH_verify_service_indicator"}

\* The key-generation rule on the key the last call was given.
KeygenRule ==
  IF params.kind = "EVP_PKEY"
    THEN \/ /\ params.pkey.type \in {"EVP_PKEY_RSA", "EVP_PKEY_RSA_PSS"}
            /\ params.pkey.size \in {256, 384, 512}
         \/ /\ params.pkey.type = "EVP_PKEY_EC"
            /\ params.pkey.curve_nid \in ApprovedCurves
    ELSE params.curve_nid \in ApprovedCurves

\* C15 at any lock depth: the key-generation functions add one to the
\* counter if and only if the key is RSA / RSA-PSS with a modulus of 256, 384
\* or 512 bytes, or EC on one of the four approved curves.
C15_KeygenRuleAnyDepth ==
  (last.op \in KeygenFns /\ StoreAvailable) =>
    IF KeygenRule THEN Counted ELSE Untouched

\* C15 with lock_depth 0: the key-generation functions add one to the counter
\* if and only if the key is RSA / RSA-PSS with a modulus of 256, 384 or 512
\* bytes, or EC on secp224r1, secp256r1 (prime256v1), secp384r1 or secp521r1;
\* every other key type, size or curve, and every call with lock_depth > 0,
\* leaves the store as it was.
C15_KeygenRule ==
  (last.op \in KeygenFns /\ StoreAvailable) =>
    IF KeygenRule /\ AtDepthZero THEN Counted ELSE Untouched

\* An EC key on secp256r1 handed to the key-generation function at lock
\* depth 0: counted.
C15_Witness ==
  /\ last.op = "EC_KEY_keygen_verify_service_indicator"
  /\ params.curve_nid = "NID_X9_62_prime256v1"
  /\ PreStore # NULL
  /\ PreStore.lock_state = Zero
  /\ PreStore.counter = Zero
  /\ StoreNow.counter = One

\* C16: AEAD_CCM_verify_service_indicator adds one to the counter if and only
\* if the key has 16 bytes and the tag 4, AEAD_GCM_verify_service_indicator
\* if and only if the key has 16 or 32 bytes, and both only with lock_depth
\* 0; otherwise they leave the store as it was.
C16_AeadRule ==
  /\ (last.op = "AEAD_CCM_verify_service_indicator" /\ StoreAvailable) =>
       IF params.key_len = 16 /\ params.tag_len = 4 /\ AtDepthZero
         THEN Counted ELSE Untouched
  /\ (last.op = "AEAD_GCM_verify_service_indicator" /\ StoreAvailable) =>
       IF params.key_len \in {16, 32} /\ AtDepthZero
         THEN Counted ELSE Untouched

\* CCM with a 16-byte key and an 8-byte tag at lock depth 0: not counted.
C16_Witness ==
  /\ last.op = "AEAD_CCM_verify_service_indicator"
  /\ params.key_len = 16
  /\ params.tag_len = 8
  /\ PreStore # NULL
  /\ PreStore.lock_state = Zero
  /\ StoreNow = PreStore

\* The composite signature rule for an EC key.
EcSignatureRule(c) ==
  /\ c.md # "NULL"
  /\ c.curve_nid \in ApprovedCurves
  /\ DigestRule(c.md)

\* C17 at any lock depth: with an EC key the digest-sign / digest-verify
\* verify function adds one to the counter if and only if a digest is bound,
\* the curve is approved and the digest satisfies the path's rule; with no
\* digest bound or a key that is neither RSA, RSA-PSS nor EC it never does.
C17_EcSignatureRuleAnyDepth ==
  (last.op \in SigFns /\ StoreAvailable) =>
    /\ params.ctx.pkey_type = "EVP_PKEY_EC" =>
         IF EcSignatureRule(params.ctx) THEN Counted ELSE Untouched
    /\ (params.ctx.md = "NULL"
          \/ params.ctx.pkey_type \notin {"EVP_PKEY_RSA", "EVP_PKEY_RSA_PSS",
                                          "EVP_PKEY_EC"}) => Untouched

\* C17 with lock_depth 0: with an EC key the digest-sign / digest-verify
\* verify function adds one to the counter if and only if a digest is bound,
\* the curve is one of the four approved and the digest satisfies the path's
\* rule; with lock_depth > 0, with no digest bound, or with a key that is
\* neither RSA, RSA-PSS nor EC the store is left as it was.
C17_EcSignatureRule ==
  (last.op \in SigFns /\ StoreAvailable) =>
    /\ params.ctx.pkey_type = "EVP_PKEY_EC" =>
         IF EcSignatureRule(params.ctx) /\ AtDepthZero
           THEN Counted ELSE Untouched
    /\ (params.ctx.md = "NULL"
          \/ params.ctx.pkey_type \notin {"EVP_PKEY_RSA", "EVP_PKEY_RSA_PSS",
                                          "EVP_PKEY_EC"}) => Untouched

\* Signing with an EC key on secp256k1 and SHA-256 at lock depth 0: not
\* counted.
C17_Witness ==
  /\ last.op = "EVP_DigestSign_verify_service_indicator"
  /\ params.ctx.pkey_type = "EVP_PKEY_EC"
  /\ params.ctx.curve_nid = "NID_secp256k1"
  /\ params.ctx.md = "NID_sha256"
  /\ PreStore # NULL
  /\ PreStore.lock_state = Zero
  /\ StoreNow = PreStore

\* C18: an update that would take approval_counter past 2^64-1 aborts the
\* process and leaves the counter at 2^64-1; no call leaves a counter smaller
\* than the one it found.
C18_OverflowAborts ==
  /\ (/\ last.op \in {"update_state", "verify"}
      /\ last.approved
      /\ PreStore # NULL
      /\ PreStore.lock_state = Zero
      /\ PreStore.counter = U64Max) =>
        (aborted /\ StoreNow.counter = U64Max)
  /\ (PreStore # NULL /\ StoreNow # NULL /\ last.op # "none") =>
       ~U64Lt(StoreNow.counter, PreStore.counter)

\* C19: lock_state, with a store to work on, adds exactly 1 to lock_depth and
\* leaves the counter alone; at lock_depth 2^64-1 it aborts the process and
\* leaves the store as it was; so lock_depth never becomes 0 by a lock_state
\* call.
C19_LockAddsOneOrAborts ==
  (last.op = "lock_state" /\ StoreAtCall # NULL) =>
    IF StoreAtCall.lock_state = U64Max
      THEN aborted /\ StoreNow = StoreAtCall
      ELSE /\ ~aborted
           /\ U64IsSucc(StoreAtCall.lock_state, StoreNow.lock_state)
           /\ StoreNow.lock_state # Zero
           /\ StoreNow.counter = StoreAtCall.counter

\* lock_state called at lock_depth 2^64-1: the process has aborted and the
\* depth is still 2^64-1.
C19_Witness ==
  /\ last.op = "lock_state"
  /\ PreStore # NULL
  /\ PreStore.lock_state = U64Max
  /\ aborted
  /\ StoreNow.lock_state = U64Max

\* C20: on an existing store lock_state and unlock_state leave the counter as
\* it was, update_state and the verify functions leave lock_depth as it was,
\* and before_call and after_call leave both; without a store before_call
\* and after_call leave none or a fresh one (lock_depth 0, counter 0).
C20_Frames ==
  /\ (last.op # "none" /\ PreStore # NULL) =>
       /\ StoreNow # NULL
       /\ last.op \in {"lock_state", "unlock_state"} =>
            StoreNow.counter = PreStore.counter
       /\ last.op \in {"update_state", "update_state_loop", "verify"} =>
            StoreNow.lock_state = PreStore.lock_state
       /\ last.op \in {"before_call", "after_call"} => StoreNow = PreStore
  /\ (last.op \in {"before_call", "after_call"} /\ PreStore = NULL) =>
       StoreNow \in {NULL, FreshStore}

\* lock_state called on a store whose counter is 1: the depth is 1 and the
\* counter still 1.
C20_Witness ==
  /\ last.op = "lock_state"
  /\ PreStore # NULL
  /\ PreStore.counter = One
  /\ StoreNow.counter = One
  /\ StoreNow.lock_state = One

====
